---- MODULE Spec2Model ----
(***************************************************************************)
(* Kalamar items (src/kalamar/item.py) and the DB-API storage              *)
(* (src/kalamar/storage/dbapi.py).                                         *)
(*                                                                         *)
(* Python dictionaries are functions with a finite domain of keys.  A      *)
(* dictionary that several objects can reference lives in `heap' and is    *)
(* named by its identity; a dictionary owned by one object is a value.     *)
(***************************************************************************)
EXTENDS Integers, Sequences, FiniteSets, TLC

\* ------------------------------------------------------------------ bounds
\* Property values are 1..MaxVal; None is 0.
MaxVal == 2
\* Cap on the number of _parse_data invocations counted per item.
MaxCalls == 2
\* Largest number of rows of the table.
MaxRows == 2
\* Longest condition list handed to _storage_search.
MaxConds == 2
\* Longest request text, in characters, handed to _format_request.
MaxRequestLen == 4
\* Longest parameter list handed to _format_request.
MaxParams == 2

\* ------------------------------------------------------------- vocabulary
Items == {1, 2}
None == 0
Vals == 1..MaxVal
ContentKey == "_content"
Keys == {"a", "c", ContentKey}

\* Identities of the dictionaries that can be bound to storage_properties:
\* DefaultDict is the one `{}' object created when `def __init__' is
\* evaluated; item i's caller may pass its own dictionary, of identity i.
DefaultDict == 0
DictIds == {DefaultDict} \cup Items

MkDict(S, v) == [x \in S |-> v]
EmptyDict == MkDict({}, None)

\* parser_aliases of the access point: alias -> canonical name.
AliasChoices == { EmptyDict, MkDict({"a"}, "c") }
\* Storage properties a caller hands to the constructor.
StorageChoices == { MkDict({"c"}, 1), MkDict({"c", ContentKey}, 1) }
\* What _custom_parse_data derives from the item's content.
ParserChoices == { MkDict({ContentKey}, MaxVal), MkDict({"c", ContentKey}, MaxVal) }

\* The table of the storage: its columns, the primary key reported by
\* _get_primary_keys and config['content_column'].
Columns == {"c", "data"}
PrimaryKeys == <<"c">>
ContentColumn == "data"
Rows == [Columns -> Vals]
TableChoices == UNION { [1..n -> Rows] : n \in 0..MaxRows }

\* Conditions of a search: (name, function, value).  The functions are the
\* values of kalamar.utils.operators.
Functs == {"eq", "gt", "re"}
Conds == Columns \X Functs \X Vals
CondLists == UNION { [1..n -> Conds] : n \in 0..MaxConds }
\* A request is its text, one character per element; "?" is the qmark marker.
Chars == {"a", "=", "?"}
Requests == UNION { [1..n -> Chars] : n \in 0..MaxRequestLen }
ParameterLists == UNION { [1..n -> Vals] : n \in 0..MaxParams }
\* connection.paramstyle: the five DB-API styles and one that is none of them.
ParamStyles == {"qmark", "numeric", "named", "format", "pyformat", "dollar"}

VARIABLES
    aliases,     \* Item.aliases (access_point.parser_aliases)
    heap,        \* DictIds -> dictionary: the objects storage_properties can name
    made,        \* the Items constructed so far
    sp,          \* ItemProperties.storage_properties: a reference into heap
    sp_old,      \* ItemProperties.storage_properties_old (a deep copy)
    parsed,      \* the dict superclass of ItemProperties
    loaded,      \* ItemProperties._loaded
    stream,      \* Item._stream: None, or the number of the opener call that made it
    content,     \* what the item's parser derives from its content
    touched,     \* a property read has been attempted on the item
    nparse,      \* number of _parse_data invocations so far
    nopen,       \* number of opener invocations so far
    nfail,       \* number of property reads that raised
    table,       \* the committed rows of the storage's table
    stmts,       \* what the last save or remove call sent to the connection, in order
    locals,      \* parameters and remaining_conditions of the last search when it ended
    last,        \* the last operation and its outcome
    prev         \* what `last' was before the last property read or write

itemVars == <<made, sp, sp_old, parsed, loaded, stream, content, touched, nparse, nopen, nfail>>
dbVars == <<table, stmts, locals>>
vars == <<aliases, heap, itemVars, dbVars, last, prev>>

\* ------------------------------------------------------ dictionary helpers
\* A lookup that forgets the alias table.
AliasGetVerbatim(al, key) == key

\* dict.get(key, key)
AliasGet(al, key) == IF key \in DOMAIN al THEN al[key] ELSE key

\* d[k] = v on a plain dict
DictSet(d, k, v) == [x \in (DOMAIN d) \cup {k} |-> IF x = k THEN v ELSE d[x]]

\* dict.update(p)
DictUpdate(d, p) == [x \in (DOMAIN d) \cup (DOMAIN p) |-> IF x \in DOMAIN p THEN p[x] ELSE d[x]]

\* The record of an operation: its name, the item, the key and value given,
\* the exception it raised ("" when it returned) and the value it returned.
Op(op, i, key, val, err, res) ==
    [op |-> op, item |-> i, key |-> key, val |-> val, err |-> err, res |-> res]

\* -------------------------------------------------------------------- Init
\* The module is imported (the default `{}' exists and is empty), the access
\* point is configured, no Item exists yet.
InitStores ==
    /\ aliases \in AliasChoices
    /\ heap = [d \in DictIds |-> EmptyDict]
    /\ made = {}
    /\ sp = [i \in Items |-> DefaultDict]
    /\ sp_old = [i \in Items |-> EmptyDict]
    /\ parsed = [i \in Items |-> EmptyDict]
    /\ loaded = [i \in Items |-> FALSE]
    /\ stream = [i \in Items |-> None]
    /\ content = [i \in Items |-> EmptyDict]
    /\ touched = [i \in Items |-> FALSE]
    /\ nparse = [i \in Items |-> 0]
    /\ nopen = [i \in Items |-> 0]
    /\ nfail = [i \in Items |-> 0]
    /\ stmts = <<>>
    /\ locals = [parameters |-> <<>>, remaining_conditions |-> <<>>, placeholders |-> 0]

InitItems ==
    /\ InitStores
    /\ last = Op("init", 0, "", None, "", None)
    /\ prev = last

Init == InitItems /\ table = <<>>

\* ------------------------------------------------------------------- Items
\* ItemProperties.__init__: storage_properties is bound to the argument
\* itself: the caller's dictionary, or the default `{}' of the signature.
InitStorageRef(i, explicit) == IF explicit THEN i ELSE DefaultDict

\* Item.__init__(access_point, opener, accessor_properties={}) followed by
\* ItemProperties.__init__(item, storage_properties).  `explicit' says whether
\* the caller passes accessor_properties (then `given', a fresh dictionary);
\* `derived' is what the item's parser will derive from the opener's stream.
NewItem(i, explicit, given, derived) ==
    /\ i \notin made
    /\ made' = made \cup {i}
    /\ sp' = [sp EXCEPT ![i] = InitStorageRef(i, explicit)]
    /\ heap' = IF explicit THEN [heap EXCEPT ![i] = given] ELSE heap
    /\ sp_old' = [sp_old EXCEPT ![i] = heap'[sp'[i]]]
    /\ content' = [content EXCEPT ![i] = derived]
    /\ last' = Op("new", i, "", None, "", None)
    /\ prev' = last
    /\ UNCHANGED <<aliases, parsed, loaded, stream, touched, nparse, nopen, nfail, dbVars>>

\* A lookup that tries the dict superclass before storage_properties.
GetItemResultParsedFirst(storage, dictlayer, key) ==
    IF key \in DOMAIN dictlayer THEN dictlayer[key]
    ELSE IF key \in DOMAIN storage THEN storage[key]
    ELSE None

\* The try/except chain of ItemProperties.__getitem__, after the key is normalised.
GetItemResult(storage, dictlayer, key) ==
    IF key \in DOMAIN storage THEN storage[key]
    ELSE IF key \in DOMAIN dictlayer THEN dictlayer[key]
    ELSE None

\* A __getitem__ that forgets to set _loaded.
MarkLoadedNever(l, i) == l

\* `self._loaded = True' after _parse_data returned.
MarkLoaded(l, i) == [l EXCEPT ![i] = TRUE]

\* An _open that calls the opener whether or not a stream is cached.
NeedsOpenAlways(s) == TRUE

\* `if self._stream is None' of Item._open: the opener is called only when
\* no stream is cached.
NeedsOpen(s) == s = None

\* A __getitem__ that sets _loaded before it calls _parse_data.
LoadedAfterFailureSet(l, i) == [l EXCEPT ![i] = TRUE]

\* _loaded after _parse_data raised: the exception leaves __getitem__ before
\* `self._loaded = True'.
LoadedAfterFailure(l, i) == l

\* The first lines of ItemProperties.__getitem__, with Item._parse_data and
\* Item._open inlined: a read of a store that is not loaded opens the stream
\* (unless it is cached), parses, and merges the derived properties into the
\* dict superclass with dict.update.  `err' is the exception of the opener or
\* of the parser that propagates, "" when there is none.
Load(i, err) ==
    \/ \* already loaded: nothing to do
       /\ loaded[i] /\ err = ""
       /\ UNCHANGED <<parsed, loaded, stream, nparse, nopen, nfail>>
    \/ \* not loaded, the opener raises: _stream stays None
       /\ ~loaded[i] /\ nparse[i] < MaxCalls /\ stream[i] = None
       /\ err = "OpenerError"
       /\ nparse' = [nparse EXCEPT ![i] = @ + 1]
       /\ nopen' = [nopen EXCEPT ![i] = @ + 1]
       /\ nfail' = [nfail EXCEPT ![i] = @ + 1]
       /\ loaded' = LoadedAfterFailure(loaded, i)
       /\ UNCHANGED <<parsed, stream>>
    \/ \* not loaded, _custom_parse_data raises
       /\ ~loaded[i] /\ nparse[i] < MaxCalls
       /\ err = "ParseError"
       /\ nparse' = [nparse EXCEPT ![i] = @ + 1]
       /\ nopen' = [nopen EXCEPT ![i] = IF NeedsOpen(stream[i]) THEN @ + 1 ELSE @]
       /\ stream' = [stream EXCEPT ![i] = IF NeedsOpen(@) THEN nopen[i] + 1 ELSE @]
       /\ nfail' = [nfail EXCEPT ![i] = @ + 1]
       /\ loaded' = LoadedAfterFailure(loaded, i)
       /\ UNCHANGED parsed
    \/ \* not loaded, the parse succeeds
       /\ ~loaded[i] /\ nparse[i] < MaxCalls
       /\ err = ""
       /\ nparse' = [nparse EXCEPT ![i] = @ + 1]
       /\ nopen' = [nopen EXCEPT ![i] = IF NeedsOpen(stream[i]) THEN @ + 1 ELSE @]
       /\ stream' = [stream EXCEPT ![i] = IF NeedsOpen(@) THEN nopen[i] + 1 ELSE @]
       /\ parsed' = [parsed EXCEPT ![i] = DictUpdate(@, content[i])]
       /\ loaded' = MarkLoaded(loaded, i)
       /\ UNCHANGED nfail

LoadErrors == {"", "OpenerError", "ParseError"}

\* ItemProperties.__getitem__(key), called as `op' ("get", or "read" for
\* AtomItem.read): the load, then the lookup of the normalised key.
GetItemAs(op, i, key) ==
    LET k == AliasGet(aliases, key) IN
    /\ i \in made
    /\ touched' = [touched EXCEPT ![i] = TRUE]
    /\ \E err \in LoadErrors :
          /\ Load(i, err)
          /\ last' = Op(op, i, key, None, err,
                        IF err = "" THEN GetItemResult(heap[sp[i]], parsed'[i], k) ELSE None)
    /\ prev' = last
    /\ UNCHANGED <<aliases, heap, made, sp, sp_old, content, dbVars>>

\* Item._open(), called directly.  The opener may raise (then _stream stays
\* None) or return a stream, which is cached.
Open(i) ==
    /\ i \in made
    /\ IF NeedsOpen(stream[i])
         THEN /\ nopen[i] < MaxCalls
              /\ nopen' = [nopen EXCEPT ![i] = @ + 1]
              /\ \/ /\ stream' = stream
                    /\ last' = Op("open", i, "", None, "OpenerError", None)
                 \/ /\ stream' = [stream EXCEPT ![i] = nopen[i] + 1]
                    /\ last' = Op("open", i, "", None, "", None)
         ELSE /\ UNCHANGED <<nopen, stream>>
              /\ last' = Op("open", i, "", None, "", None)
    /\ UNCHANGED <<aliases, heap, made, sp, sp_old, parsed, loaded, content, touched,
                   nparse, nfail, dbVars, prev>>

\* An assignment that raises KeyError for a key storage_properties lacks, so
\* that the except branch of __setitem__ runs.
StoreRaisesKeyErrorWhenMissing(storage, key) == key \notin DOMAIN storage

\* `self.storage_properties[key] = value' on a plain dict: item assignment
\* inserts a missing key, it raises no KeyError.
StoreRaisesKeyError(storage, key) == FALSE

\* A __setitem__ that loads the store first, as __getitem__ does.
SetItemAsLoading(op, i, key, value) ==
    LET k == AliasGet(aliases, key) IN
    /\ i \in made
    /\ heap' = [heap EXCEPT ![sp[i]] = DictSet(@, k, value)]
    /\ parsed' = [parsed EXCEPT ![i] = IF loaded[i] THEN @ ELSE DictUpdate(@, content[i])]
    /\ loaded' = [loaded EXCEPT ![i] = TRUE]
    /\ nparse' = [nparse EXCEPT ![i] = IF loaded[i] THEN @ ELSE @ + 1]
    /\ nopen' = [nopen EXCEPT ![i] = IF stream[i] = None THEN @ + 1 ELSE @]
    /\ stream' = [stream EXCEPT ![i] = IF @ = None THEN nopen[i] + 1 ELSE @]
    /\ last' = Op(op, i, key, value, "", None)
    /\ prev' = last
    /\ UNCHANGED <<aliases, made, sp, sp_old, content, touched, nfail, dbVars>>

\* A __setitem__ on a store whose storage_properties_old is the same object
\* as storage_properties, not a copy of it.
SetItemAsAliasingOld(op, i, key, value) ==
    LET k == AliasGet(aliases, key) IN
    /\ i \in made
    /\ heap' = [heap EXCEPT ![sp[i]] = DictSet(@, k, value)]
    /\ sp_old' = [sp_old EXCEPT ![i] = heap'[sp[i]]]
    /\ last' = Op(op, i, key, value, "", None)
    /\ prev' = last
    /\ UNCHANGED <<aliases, made, sp, parsed, loaded, stream, content, touched,
                   nparse, nopen, nfail, dbVars>>

\* ItemProperties.__setitem__(key, value), called as `op' ("set", or "write"
\* for AtomItem.write).
SetItemAs(op, i, key, value) ==
    LET k == AliasGet(aliases, key) IN
    /\ i \in made
    /\ IF StoreRaisesKeyError(heap[sp[i]], k)
         THEN /\ parsed' = [parsed EXCEPT ![i] = DictSet(@, k, value)]
              /\ heap' = heap
         ELSE /\ heap' = [heap EXCEPT ![sp[i]] = DictSet(@, k, value)]
              /\ parsed' = parsed
    /\ last' = Op(op, i, key, value, "", None)
    /\ prev' = last
    /\ UNCHANGED <<aliases, made, sp, sp_old, loaded, stream, content, touched,
                   nparse, nopen, nfail, dbVars>>

GetItem(i, key) == GetItemAs("get", i, key)
SetItem(i, key, value) == SetItemAs("set", i, key, value)
\* AtomItem.read / AtomItem.write
AtomRead(i) == GetItemAs("read", i, ContentKey)
AtomWrite(i, value) == SetItemAs("write", i, ContentKey, value)

Construct(i) ==
    \/ \E derived \in ParserChoices : NewItem(i, FALSE, EmptyDict, derived)
    \/ \E given \in StorageChoices, derived \in ParserChoices : NewItem(i, TRUE, given, derived)

\* dict.keys() of item.properties: ItemProperties does not override keys(),
\* so these are the keys of the dict superclass, and no load is triggered.
PropertiesKeys(i) == DOMAIN parsed[i]

\* item.properties.keys(), called directly.
KeysCall(i) ==
    /\ i \in made
    /\ last' = Op("keys", i, "", None, "", PropertiesKeys(i))
    /\ UNCHANGED <<aliases, heap, itemVars, dbVars, prev>>

\* One Item and every operation on its properties.
One == CHOOSE i \in Items : \A j \in Items : i <= j
Next ==
    \/ Construct(One)
    \/ \E key \in Keys : GetItem(One, key)
    \/ \E key \in Keys, value \in Vals : SetItem(One, key, value)
    \/ AtomRead(One)
    \/ \E value \in Vals : AtomWrite(One, value)

Spec == Init /\ [][Next]_vars

\* One Item, its property reads, direct _open calls and key enumerations.
NextOpen ==
    \/ Construct(One)
    \/ \E key \in Keys : GetItem(One, key)
    \/ AtomRead(One)
    \/ Open(One)
    \/ KeysCall(One)

SpecOpen == Init /\ [][NextOpen]_vars

\* Several AtomItems, used through read() and write().
NextPair ==
    \/ \E i \in Items : Construct(i)
    \/ \E i \in Items : AtomRead(i)
    \/ \E i \in Items, value \in Vals : AtomWrite(i, value)

SpecPair == Init /\ [][NextPair]_vars

\* ------------------------------------------------------------ DBAPIStorage
InitDB == InitItems /\ table \in TableChoices

\* Item.serialize(): builds the canonical-name -> value map from
\* properties.keys(), then calls `_serialize(self, props)': a global name
\* that item.py never binds (the method is self._serialize), so the call
\* raises NameError.  The reads of the comprehension touch only keys of the
\* dict superclass, which is empty until a parse has succeeded.
Serialize(i) ==
    [ props |-> [k \in {AliasGet(aliases, key) : key \in PropertiesKeys(i)} |->
                    GetItemResult(heap[sp[i]], parsed[i], k)],
      err |-> "NameError" ]

\* DBAPIStorage.save(item).  The right-hand side of
\* `item.properties[content_column] = item.serialize()' raises before the
\* assignment, before any statement is built or executed and before the
\* commit: nothing is sent to the connection and the exception propagates.
Save(i) ==
    /\ i \in made
    /\ stmts' = <<>>
    /\ table' = table
    /\ last' = Op("save", i, "", None, Serialize(i).err, None)
    /\ UNCHANGED <<aliases, heap, itemVars, locals, prev>>

\* DBAPIStorage._storage_search(conditions), up to its first exception.
\* `conditions[-1]' raises IndexError on an empty list.  `for cond in
\* conditions[-1]' walks the fields of the last condition, not the conditions
\* before it: its first `cond' is the name, `cond[1]' is the second character
\* of the name (IndexError when it has none) and no key of
\* operators_from_function, whose keys are functions (KeyError, raised
\* outside the try).  This is the exception when the storage object has an
\* attribute operators_from_function.
StorageSearchError(conditions) ==
    IF Len(conditions) = 0 THEN "IndexError"
    ELSE LET cond == conditions[Len(conditions)][1] IN
         IF Len(cond) < 2 THEN "IndexError" ELSE "KeyError"

\* The exceptions the call can end with.  __init__ assigns
\* `_operatorsfrom_function', never `operators_from_function': unless a
\* descendant class provides that attribute, reading it in the first pass of
\* the loop raises AttributeError.
StorageSearchErrors(conditions) ==
    IF Len(conditions) = 0 THEN {StorageSearchError(conditions)}
    ELSE {StorageSearchError(conditions), "AttributeError"}

\* The locals of _storage_search when the call ends: the exception comes
\* before the first `parameters.append', `remaining_conditions.append' or
\* `request +=', so the lists are empty and the request has no placeholder.
StorageSearchLocals(conditions) ==
    [parameters |-> <<>>, remaining_conditions |-> <<>>, placeholders |-> 0]

StorageSearch(conditions) ==
    /\ \E err \in StorageSearchErrors(conditions) :
          last' = Op("search", 0, "", conditions, err, {})
    /\ locals' = StorageSearchLocals(conditions)
    /\ UNCHANGED <<aliases, heap, itemVars, table, stmts, prev>>

\* DBAPIStorage.remove(item).  The request is built from the item's value
\* for every primary key, each a property read: the first one loads the
\* store, and an exception of the opener or of the parser leaves remove.  The
\* request is then `REMOVE FROM <table> WHERE <key> = <value> ;', handed to
\* cursor.execute.  REMOVE is no SQL statement: the connection rejects the
\* request, execute raises, and remove ends without a commit.  The rows of
\* the table are as they were.
Remove(i) ==
    /\ i \in made
    /\ touched' = [touched EXCEPT ![i] = TRUE]
    /\ \E err \in LoadErrors :
          /\ Load(i, err)
          /\ IF err = ""
               THEN /\ stmts' = <<"REMOVE">>
                    /\ last' = Op("remove", i, "", None, "DatabaseError", None)
               ELSE /\ stmts' = <<>>
                    /\ last' = Op("remove", i, "", None, err, None)
    /\ table' = table
    /\ UNCHANGED <<aliases, heap, made, sp, sp_old, content, locals, prev>>

\* The storage adapter saving or removing one Item that its caller has set up.
NextSave ==
    \/ Construct(One)
    \/ \E value \in Vals : SetItem(One, PrimaryKeys[1], value)
    \/ \E value \in Vals : AtomWrite(One, value)
    \/ Save(One)
    \/ Remove(One)

SpecSave == InitDB /\ [][NextSave]_vars

\* The storage adapter searching its table.
NextSearch == \E conditions \in CondLists : StorageSearch(conditions)

SpecSearch == InitDB /\ [][NextSearch]_vars

\* ---------------------------------------------------------- _format_request
\* str.split('?'): the pieces of the text between the markers, in order.
RECURSIVE Split(_)
Split(text) ==
    IF \A n \in 1..Len(text) : text[n] # "?" THEN <<text>>
    ELSE LET p == CHOOSE n \in 1..Len(text) :
                     text[n] = "?" /\ \A m \in 1..(n - 1) : text[m] # "?"
         IN <<SubSeq(text, 1, p - 1)>> \o Split(SubSeq(text, p + 1, Len(text)))

\* ''.join(pieces), for pieces that are strings.
RECURSIVE Join(_)
Join(pieces) == IF pieces = <<>> THEN "" ELSE Head(pieces) \o Join(Tail(pieces))

\* A numeric marker numbered like enumerate, from 0.
NumericMarkerZeroBased(i) == ":" \o ToString(i)

\* `':' + str(i+1)' and `':name' + str(i)', i being enumerate's index.
NumericMarker(i) == ":" \o ToString(i + 1)
NamedMarker(i) == ":name" \o ToString(i)
\* `"name"+str(i)', the key of parameter i in the named style.
ParameterName(i) == "name" \o ToString(i)

\* new_request_parts(parts) joined: the first piece, then every other piece
\* behind the marker of its index.
NewRequest(parts, style) ==
    Join([n \in 1..Len(parts) |->
            IF n = 1 THEN Join(parts[n])
            ELSE (IF style = "numeric" THEN NumericMarker(n - 2) ELSE NamedMarker(n - 2))
                 \o Join(parts[n])])

\* dict([("name"+str(i), value) for i, value in enumerate(parameters)])
NamedParameters(parameters) ==
    [name \in {ParameterName(n - 1) : n \in 1..Len(parameters)} |->
        parameters[CHOOSE n \in 1..Len(parameters) : ParameterName(n - 1) = name]]

\* DBAPIStorage._format_request(request, parameters) on a connection of the
\* given paramstyle.  The else branch names UnsupportedParameterStyleError,
\* an attribute of the class and no global name: evaluating it raises
\* NameError.  (The statement has no `raise' either.)
FormatRequest(style, request, parameters) ==
    CASE style = "qmark" ->
           [err |-> "", request |-> Join(request), parameters |-> parameters]
      [] style = "numeric" ->
           [err |-> "", request |-> NewRequest(Split(request), style),
            parameters |-> parameters]
      [] style = "named" ->
           [err |-> "", request |-> NewRequest(Split(request), style),
            parameters |-> NamedParameters(parameters)]
      [] style \in {"format", "pyformat"} ->
           [err |-> "NotImplementedError", request |-> None, parameters |-> None]
      [] OTHER ->
           [err |-> "NameError", request |-> None, parameters |-> None]

\* The adapter is about to call _format_request(request, parameters) on a
\* connection of some paramstyle.
InitFormat ==
    /\ InitStores
    /\ table = <<>>
    /\ prev = Op("init", 0, "", None, "", None)
    /\ \E style \in ParamStyles, request \in Requests, parameters \in ParameterLists :
          last = Op("request", 0, style, <<request, parameters>>, "", None)

FormatRequestCall ==
    /\ last.op = "request"
    /\ LET r == FormatRequest(last.key, last.val[1], last.val[2]) IN
       last' = Op("format", 0, last.key, last.val, r.err,
                  IF r.err = "" THEN <<r.request, r.parameters>> ELSE None)
    /\ UNCHANGED <<aliases, heap, itemVars, dbVars, prev>>

\* The storage adapter rewriting a request for its connection.
NextFormat == FormatRequestCall

SpecFormat == InitFormat /\ [][NextFormat]_vars

\* ================================================================== claims
\* What the item's store holds under the canonical name of `key'.
Storage(i) == heap[sp[i]]
Canon(key) == IF key \in DOMAIN aliases THEN aliases[key] ELSE key
IsRead(o) == o.op \in {"get", "read"}
IsWrite(o) == o.op \in {"set", "write"}

\* The dict superclass is filled by a successful parse only.
ParsedOnlyWhenLoaded == \A i \in Items : (DOMAIN parsed[i] # {}) => loaded[i]

\* ---- C1 (as stated): the number of _parse_data invocations of an Item is 0
\* before its first property read and exactly 1 at every point after it.
C1_ParseCountZeroThenOne ==
    \A i \in made : IF touched[i] THEN nparse[i] = 1 ELSE nparse[i] = 0

\* ---- C1 (amended): the number of _parse_data invocations is 0 before the
\* first property read; after it, it is the number of property reads that
\* raised, plus one when a parse has succeeded: every read made before a parse
\* has succeeded invokes the parse once, and no read invokes it afterwards.
C1_ParseOncePerFailureThenNever ==
    \A i \in made :
        IF touched[i]
        THEN nparse[i] >= 1 /\ nparse[i] = nfail[i] + (IF loaded[i] THEN 1 ELSE 0)
        ELSE nparse[i] = 0

\* A read that raised, then a read that loaded the item.
C1_Witness ==
    /\ IsRead(last) /\ last.err = "" /\ IsRead(prev) /\ prev.err # ""
    /\ prev.item = last.item
    /\ loaded[last.item] /\ nfail[last.item] = 1 /\ nparse[last.item] = 2

\* ---- C6 (as stated): __setitem__ replaces the value in storage_properties
\* if and only if the normalised key is already a key of storage_properties;
\* otherwise the value goes to the dict superclass and the key set of
\* storage_properties is unchanged.
C6_WriteRouting ==
    [][ IsWrite(last') =>
          LET i == last'.item
              k == Canon(last'.key)
          IN  IF k \in DOMAIN Storage(i)
              THEN /\ heap'[sp[i]] = [Storage(i) EXCEPT ![k] = last'.val]
                   /\ parsed' = parsed
              ELSE /\ k \in DOMAIN parsed'[i]
                   /\ parsed'[i][k] = last'.val
                   /\ DOMAIN heap'[sp[i]] = DOMAIN Storage(i) ]_vars

\* ---- C7 (as stated): a property write on one Item changes neither the
\* storage_properties nor the parsed values of any other Item, nor the value
\* any property read on another Item returns.
C7_IsolationBetweenItems ==
    [][ IsWrite(last') =>
          \A j \in made \ {last'.item} :
              /\ heap'[sp[j]] = heap[sp[j]]
              /\ parsed'[j] = parsed[j]
              /\ \A key \in Keys :
                    GetItemResult(heap'[sp[j]], parsed'[j], Canon(key))
                      = GetItemResult(heap[sp[j]], parsed[j], Canon(key)) ]_vars

AliasPair(x, y) ==
    \/ x \in DOMAIN aliases /\ y = aliases[x] /\ y \notin DOMAIN aliases
    \/ y \in DOMAIN aliases /\ x = aliases[y] /\ x \notin DOMAIN aliases

C9_AliasTransparency ==
    (/\ IsRead(last) /\ last.err = ""
     /\ prev.item = last.item
     /\ AliasPair(prev.key, last.key)) =>
        /\ IsWrite(prev) => last.res = prev.val
        /\ (IsRead(prev) /\ prev.err = "") => last.res = prev.res

\* A write through the alias, read back through the canonical name, of a
\* value that differs from the one the parser derived for that name.
C9_Witness ==
    /\ IsRead(last) /\ last.err = "" /\ IsWrite(prev) /\ prev.item = last.item
    /\ prev.key \in DOMAIN aliases /\ last.key = aliases[prev.key]
    /\ last.res = prev.val
    /\ last.key \in DOMAIN parsed[last.item] /\ parsed[last.item][last.key] # prev.val

\* ---- C10: AtomItem.write(X) immediately followed by AtomItem.read() on the
\* same item returns X when the read returns, loaded or not, with or without
\* a `_content' storage value, whatever the parser derives for `_content'.
C10_AtomWriteReadRoundTrip ==
    (/\ last.op = "read" /\ last.err = ""
     /\ prev.op = "write" /\ prev.item = last.item) => last.res = prev.val

\* The read after the write is the one that parses; the item was constructed
\* without a `_content' storage value and the parser derives another value.
C10_Witness ==
    /\ last.op = "read" /\ last.err = "" /\ prev.op = "write" /\ prev.item = last.item
    /\ nparse[last.item] = 1 /\ loaded[last.item]
    /\ ContentKey \notin DOMAIN sp_old[last.item]
    /\ parsed[last.item][ContentKey] # prev.val
    /\ last.res = prev.val

\* ----------------------------------------------------------- storage claims
\* How a function of kalamar.utils.operators compares a row's value with the
\* value of a condition, evaluated in-process.
EvalFunct(funct, x, value) ==
    CASE funct = "eq" -> x = value
      [] funct = "gt" -> x > value
      [] funct = "re" -> x = value

Range(f) == { f[n] : n \in DOMAIN f }

\* The rows for which every condition of the list holds.
RowsSatisfying(conditions) ==
    { row \in Range(table) :
        \A n \in 1..Len(conditions) :
            EvalFunct(conditions[n][2], row[conditions[n][1]], conditions[n][3]) }

\* ---- C2 (as stated): for a non-empty condition list _storage_search returns
\* the Items of exactly the rows of the table for which every condition,
\* evaluated in-process with its own operator, holds.
C2_SearchEqualsInProcessFilter ==
    (last.op = "search" /\ Len(last.val) >= 1) =>
        /\ last.err = ""
        /\ last.res = RowsSatisfying(last.val)

\* The item's current value for a column, as item.properties[column] gives it.
ItemValue(i, column) == GetItemResult(Storage(i), parsed[i], Canon(column))

\* The row's primary-key columns all equal the item's values for them.
PkMatches(row, i) ==
    \A n \in 1..Len(PrimaryKeys) : row[PrimaryKeys[n]] = ItemValue(i, PrimaryKeys[n])

MatchingRows(i) == { n \in 1..Len(table) : PkMatches(table[n], i) }

\* The row holds the item's value for every physical column the item has.
RowHoldsItem(row, i) ==
    \A column \in Columns \cap DOMAIN Storage(i) : row[column] = Storage(i)[column]

\* ---- C3 (as stated): save(item) with no row matching the item's primary key
\* ends with one more row, which holds the item's physical column values;
\* with exactly one matching row it ends with that row updated to the item's
\* values and the row count unchanged; every other row is unchanged.
C3_UpsertOutcome ==
    [][ last'.op = "save" =>
          LET i == last'.item IN
          /\ MatchingRows(i) = {} =>
                /\ Len(table') = Len(table) + 1
                /\ SubSeq(table', 1, Len(table)) = table
                /\ RowHoldsItem(table'[Len(table')], i)
          /\ Cardinality(MatchingRows(i)) = 1 =>
                /\ Len(table') = Len(table)
                /\ \A n \in 1..Len(table) :
                      IF n \in MatchingRows(i)
                      THEN RowHoldsItem(table'[n], i)
                      ELSE table'[n] = table[n] ]_vars

\* ---- C4 (as stated): save(item) whose UPDATE affects more than one row (more
\* than one row matches the item's primary key) fails with
\* ManyItemsUpdatedError, after a rollback, and leaves the committed table as
\* it was before the call.
C4_AmbiguousUpdateRollsBack ==
    [][ (last'.op = "save" /\ Cardinality(MatchingRows(last'.item)) > 1) =>
          /\ last'.err = "ManyItemsUpdatedError"
          /\ \E n \in 1..Len(stmts') : stmts'[n] = "rollback"
          /\ table' = table ]_vars

C11_WritesNeverLoad ==
    [][ IsWrite(last') =>
          /\ loaded' = loaded
          /\ stream' = stream
          /\ nparse' = nparse
          /\ nopen' = nopen ]_vars

\* A write has stored its value on an Item that was never loaded or opened.
C11_Witness ==
    /\ IsWrite(last) /\ last.item \in made
    /\ ~loaded[last.item] /\ stream[last.item] = None
    /\ nparse[last.item] = 0 /\ nopen[last.item] = 0
    /\ Canon(last.key) \in DOMAIN Storage(last.item)
    /\ Storage(last.item)[Canon(last.key)] = last.val
    /\ IsWrite(prev)

\* C12 as stated: over any sequence of property reads, _open calls and
\* parses, reads after a failed open or a failed parse included, the opener
\* is invoked at most once, and an _open on a cached stream leaves it as it is.
C12_OpenerAtMostOnce ==
    [][ \A i \in Items :
          /\ nopen'[i] <= 1
          /\ stream[i] # None => stream'[i] = stream[i] ]_vars

\* C12, amended: once the opener has returned a stream it is not invoked
\* again and every later _open leaves the cached stream identical to it; an
\* opener call that raised caches nothing, so the next _open calls the opener
\* again, once per _open.
C12_OpenerNotCalledOnceCached ==
    [][ \A i \in Items :
          /\ stream[i] # None => (stream'[i] = stream[i] /\ nopen'[i] = nopen[i])
          /\ nopen'[i] \in {nopen[i], nopen[i] + 1} ]_vars

\* The opener raised once, a later read opened and parsed, and a direct _open
\* after that found the stream cached.
C12_Witness ==
    /\ last.op = "open" /\ last.err = "" /\ last.item \in made
    /\ loaded[last.item]
    /\ nopen[last.item] = 2 /\ stream[last.item] = 2

\* C13: properties.keys(), as Item.serialize uses it, yields exactly the
\* union of the keys of storage_properties and of the parsed values as they
\* are after a load, so that serialize sees every storage and parsed property.
KeysAfterLoad(i) ==
    DOMAIN Storage(i) \cup
    DOMAIN (IF loaded[i] THEN parsed[i] ELSE DictUpdate(parsed[i], content[i]))
C13_KeysAreUnionAfterLoad ==
    last.op = "keys" => last.res = KeysAfterLoad(last.item)

\* The request text with its markers replaced, from left to right, by
\* `prefix' and the numbers k, k + 1, ..., every other character kept.
RECURSIVE Renumbered(_, _, _)
Renumbered(text, prefix, k) ==
    IF text = <<>> THEN ""
    ELSE IF Head(text) = "?"
           THEN prefix \o ToString(k) \o Renumbered(Tail(text), prefix, k + 1)
           ELSE Head(text) \o Renumbered(Tail(text), prefix, k)
Markers(text) == Cardinality({n \in 1..Len(text) : text[n] = "?"})

\* C14: for a request with N markers and N parameters, qmark returns both
\* unchanged; numeric replaces the k-th marker, k = 1..N, by `:k' and keeps the
\* parameter list; named replaces the k-th marker, k = 0..N-1, by `:namek' and
\* returns the map from `namek' to the k-th parameter; the text between the
\* markers is preserved.
C14_PlaceholderRewrite ==
    (last.op = "format" /\ last.key \in {"qmark", "numeric", "named"}
        /\ Markers(last.val[1]) = Len(last.val[2])) =>
    LET request == last.val[1]
        parameters == last.val[2]
    IN /\ last.err = ""
       /\ last.key = "qmark" =>
            /\ last.res[1] = Join(request)
            /\ last.res[2] = parameters
       /\ last.key = "numeric" =>
            /\ last.res[1] = Renumbered(request, ":", 1)
            /\ last.res[2] = parameters
       /\ last.key = "named" =>
            /\ last.res[1] = Renumbered(request, ":name", 0)
            /\ DOMAIN last.res[2] = {"name" \o ToString(k) : k \in 0..(Len(parameters) - 1)}
            /\ \A k \in 0..(Len(parameters) - 1) :
                  last.res[2]["name" \o ToString(k)] = parameters[k + 1]

\* A numeric request with two markers and text around them was rewritten.
C14_Witness ==
    /\ last.op = "format" /\ last.key = "numeric" /\ last.err = ""
    /\ last.val[1] = <<"a", "?", "=", "?">> /\ Len(last.val[2]) = 2
    /\ last.res[1] = "a:1=:2"

\* C15: _format_request fails with NotImplemented for the `format' and
\* `pyformat' dialects and with UnsupportedParameterStyle for every dialect
\* outside the five DB-API ones; in neither case does it return a result.
C15_UnsupportedStylesFail ==
    last.op = "format" =>
      /\ last.key \in {"format", "pyformat"} =>
            (last.err = "NotImplementedError" /\ last.res = None)
      /\ last.key \notin {"qmark", "numeric", "named", "format", "pyformat"} =>
            (last.err = "UnsupportedParameterStyleError" /\ last.res = None)

\* C16: remove(item) deletes from the table exactly the rows whose every
\* primary-key column equals the item's current value for that key, and
\* leaves every other row unchanged.  Stated for the calls in which the
\* item's values could be read.
C16_RemoveDeletesMatchingRows ==
    [][ (last'.op = "remove" /\ last'.err \notin {"OpenerError", "ParseError"}) =>
          LET i == last'.item
              Value(column) == GetItemResult(heap'[sp'[i]], parsed'[i], Canon(column))
              Matches(row) == \A n \in 1..Len(PrimaryKeys) :
                                 row[PrimaryKeys[n]] = Value(PrimaryKeys[n])
              Kept(row) == ~Matches(row)
          IN table' = SelectSeq(table, Kept) ]_vars

\* C17: storage_properties_old is the storage properties the Item's store had
\* when the Item was constructed, and no read, write (a write over a storage
\* value included) or parse changes it afterwards.
C17_SnapshotKeepsConstructionValues ==
    [][ \A i \in Items :
          /\ (i \notin made /\ i \in made') => sp_old'[i] = heap'[sp'[i]]
          /\ i \in made => sp_old'[i] = sp_old[i] ]_vars

\* After a parse, a write has replaced a storage value; the snapshot still
\* holds the value the Item was constructed with.
C17_Witness ==
    /\ IsWrite(last) /\ last.item \in made /\ loaded[last.item]
    /\ Canon(last.key) \in DOMAIN sp_old[last.item]
    /\ Storage(last.item)[Canon(last.key)] = last.val
    /\ sp_old[last.item][Canon(last.key)] # last.val

\* C18: a search with n >= 1 conditions handles each of them exactly once: a
\* condition is either pushed down (one placeholder, one bound parameter) or
\* appended to the remaining conditions; none is dropped or handled twice, and
\* the number of bound parameters equals the number of placeholders.
C18_ConditionPartition ==
    (last.op = "search" /\ Len(last.val) >= 1) =>
        /\ Len(locals.parameters) + Len(locals.remaining_conditions) = Len(last.val)
        /\ \A n \in 1..Len(locals.remaining_conditions) :
              \E m \in 1..Len(last.val) : locals.remaining_conditions[n] = last.val[m]
        /\ Len(locals.parameters) = locals.placeholders

\* C19: save(item), also for an AtomItem whose content was set with write(X)
\* before it, sets the content column of the item to the result of
\* item.serialize(), sends only UPDATE and INSERT statements over the physical
\* columns, and leaves the item without a `_content' property in either store.
C19_VirtualContentInSave ==
    [][ last'.op = "save" =>
          LET i == last'.item IN
          /\ ContentColumn \in DOMAIN heap'[sp'[i]] \cup DOMAIN parsed'[i]
          /\ \E n \in 1..Len(stmts') : stmts'[n] \in {"UPDATE", "INSERT"}
          /\ ContentKey \notin DOMAIN heap'[sp'[i]]
          /\ ContentKey \notin DOMAIN parsed'[i] ]_vars

\* C20: a property read during which the opener or the parser raises returns
\* no value and lets the exception out; storage_properties, the parsed values
\* and the loaded flag are as before the read, the flag still false, and the
\* next read of the Item invokes the parse again.
C20_FailedParseLeavesStoreUntouched ==
    [][ /\ (IsRead(last') /\ last'.err # "") =>
             /\ last'.err \in {"OpenerError", "ParseError"}
             /\ last'.res = None
             /\ heap' = heap
             /\ parsed' = parsed
             /\ loaded' = loaded
             /\ ~loaded'[last'.item]
        /\ (IsRead(last) /\ last.err # "" /\ IsRead(last') /\ last'.item = last.item) =>
             nparse'[last.item] = nparse[last.item] + 1 ]_vars

\* A read failed in the opener, the next read parsed again and failed in the
\* parser; the store still holds its construction values and nothing parsed.
C20_Witness ==
    /\ IsRead(last) /\ last.err = "ParseError" /\ last.item \in made
    /\ IsRead(prev) /\ prev.err = "OpenerError" /\ prev.item = last.item
    /\ ~loaded[last.item] /\ nparse[last.item] = 2
    /\ parsed[last.item] = EmptyDict
    /\ DOMAIN Storage(last.item) # {} /\ Storage(last.item) = sp_old[last.item]

====
